---- MODULE Spec2Model ----
(***************************************************************************)
(* Model of the kotaeba WebSocket streaming STT client (src/main.py) and   *)
(* of its message schemas (src/models/websocket.py).                       *)
(*                                                                         *)
(* The client is one asyncio program: run() and the two tasks it creates   *)
(* (_stream_audio, _receive_transcription) interleave only at their await  *)
(* points, the signal handler runs as an event-loop callback, and the      *)
(* blocking PyAudio read stops the whole loop while it lasts.              *)
(***************************************************************************)
EXTENDS Integers, Sequences, FiniteSets, TLC

(* ------------------------------ bounds --------------------------------- *)
MaxFrames == 2
MaxMessages == 2
MaxSignals == 2
MaxFlushes == 2
MaxClassified == 1

(* ------------------------- strings as characters ----------------------- *)
Whitespace == {" ", "\n"}
Letters == {"e", "n", "E", "N", "h", "i"}

RECURSIVE lstrip(_)
lstrip(s) ==
  IF s = <<>> THEN <<>>
  ELSE IF Head(s) \in Whitespace THEN lstrip(Tail(s)) ELSE s

RECURSIVE rstrip(_)
rstrip(s) ==
  IF s = <<>> THEN <<>>
  ELSE IF s[Len(s)] \in Whitespace THEN rstrip(SubSeq(s, 1, Len(s) - 1)) ELSE s

\* str.strip(): removes leading and trailing whitespace, keeps inner whitespace
strip(s) == rstrip(lstrip(s))

\* str.isalpha(): non-empty and every character is a letter
isalpha(s) == s # <<>> /\ \A i \in 1..Len(s) : s[i] \in Letters

lower_char(c) ==
  CASE c = "E" -> "e"
    [] c = "N" -> "n"
    [] OTHER -> c

\* str.lower()
lower(s) == [i \in 1..Len(s) |-> lower_char(s[i])]

RECURSIVE join(_)
\* "\n".join(lines)
join(lines) ==
  IF lines = <<>> THEN <<>>
  ELSE IF Len(lines) = 1 THEN lines[1]
  ELSE lines[1] \o <<"\n">> \o join(Tail(lines))

(* ------------------------------ ClientConfig --------------------------- *)
LanguageMinLength == 2
LanguageMaxLength == 5

\* the Field(min_length, max_length) constraint on a language string
LanguageLengthOk(v) == Len(v) >= LanguageMinLength /\ Len(v) <= LanguageMaxLength

validate_language_keepcase(v) ==
  IF v # <<>> /\ ~isalpha(v)
    THEN [ok |-> FALSE, value |-> <<>>]
    ELSE [ok |-> TRUE, value |-> v]

\* ClientConfig.validate_language: reject a non-alphabetic code, else lowercase
validate_language(v) ==
  IF v # <<>> /\ ~isalpha(v)
    THEN [ok |-> FALSE, value |-> <<>>]
    ELSE [ok |-> TRUE, value |-> lower(v)]

\* ClientConfig(language=...): the field constraint runs first, then the validator
ClientConfig(language) ==
  IF ~LanguageLengthOk(language)
    THEN [ok |-> FALSE, value |-> <<>>]
    ELSE validate_language(language)

\* the values Settings.LANGUAGE is drawn from; all satisfy the Settings
\* length constraint, which is checked when the settings object is built
Languages ==
  { <<"E", "N">>, <<"E", "N", " ">>, <<"1", "2">> }

(* --------------------------- server messages --------------------------- *)
TranscriptionFields == {"text", "segments", "is_partial", "language", "confidence"}
StatusFields == {"status", "message", "timestamp", "progress"}
StatusValues == {"ready", "processing", "error", "closed"}

\* confidence and progress are in tenths: the schemas' range 0..1 is 0..10
UnitMax == 10

hello == <<"h", "i">>
padded == <<" ", "h", " ", "i", "\n">>
blank == <<" ", " ">>

\* a JSON object: the keys it carries and the values of the keys that matter
Payload(keys, text, is_partial, status, confidence) ==
  [keys |-> keys, text |-> text, is_partial |-> is_partial,
   status |-> status, confidence |-> confidence]

Payloads ==
  { Payload({"text", "is_partial"}, hello, FALSE, "", 0),
    Payload({"text", "confidence"}, padded, TRUE, "", 5),
    Payload({"text"}, blank, TRUE, "", 0),
    Payload({"status", "message"}, <<>>, TRUE, "error", 0),
    Payload({"foo"}, <<>>, TRUE, "", 0),
    Payload({"text", "confidence"}, hello, TRUE, "", 15),
    Payload({"text", "status"}, hello, TRUE, "ready", 0) }

\* a wider set of JSON objects: every combination of these keys, every
\* status value and an unknown one, a confidence inside and outside the range
UniverseKeys == {"text", "confidence", "status", "message", "foo"}

PayloadUniverse ==
  { Payload(k,
            IF "text" \in k THEN hello ELSE <<>>,
            TRUE,
            IF "status" \in k THEN st ELSE "",
            IF "confidence" \in k THEN c ELSE 0) :
      k \in SUBSET UniverseKeys, st \in StatusValues \cup {"bogus"}, c \in {5, 15} }

ValidTranscription_allow_extra(p) ==
  "confidence" \in p.keys => (p.confidence >= 0 /\ p.confidence <= UnitMax)

\* ServerTranscription.model_validate_json: every field optional, extra forbidden
ValidTranscription(p) ==
  /\ p.keys \subseteq TranscriptionFields
  /\ ("confidence" \in p.keys => (p.confidence >= 0 /\ p.confidence <= UnitMax))

\* ServerStatus.model_validate_json: status required, extra forbidden
ValidStatus(p) ==
  /\ "status" \in p.keys
  /\ p.keys \subseteq StatusFields
  /\ p.status \in StatusValues

\* the try / except ValidationError cascade of _receive_transcription
classify(p) ==
  IF ValidTranscription(p) THEN "Transcription"
  ELSE IF ValidStatus(p) THEN "Status"
  ELSE "Malformed"

\* ServerTranscription.text, with its default
text_of(p) == IF "text" \in p.keys THEN p.text ELSE <<>>

\* ServerTranscription.is_partial, with its default
is_partial_of(p) == IF "is_partial" \in p.keys THEN p.is_partial ELSE TRUE

\* ServerTranscription.is_final
is_final(p) == ~is_partial_of(p)

(* -------------------------------- state -------------------------------- *)
VARIABLES
  LANGUAGE,            \* settings.LANGUAGE
  deviceAvailable,     \* whether pa.open(input=True) can succeed
  runPc,               \* position of run() / of the process
  exitCode,            \* process exit status, -1 while it runs
  running,             \* self.running
  server_process,      \* self.server_process: "none", "started", "terminated"
  session_dir,         \* self.session_dir is set and the directory exists
  transport,           \* the websocket: "none", "open", "peer_closed", "closed"
  config,              \* the ClientConfig built by run()
  sent,                \* messages the client has put on the transport
  stream,              \* self.stream: "none" (None) or "open"
  streamActive,        \* stream.is_active()
  streamCloses,        \* number of stream.close() calls
  paTerminated,        \* self.pa.terminate() was called
  sendPc,              \* position of the _stream_audio task
  recvPc,              \* position of the _receive_transcription task
  sendCancel,          \* send_task.cancel() is pending
  recvCancel,          \* recv_task.cancel() is pending
  data,                \* the frame held by _stream_audio
  audio_buffer,        \* self.audio_buffer
  transcript_buffer,   \* self.transcript_buffer
  wavFile,             \* session.wav
  txtFile,             \* transcript.txt
  stop_future,         \* stop_future.done()
  pendingSignals,      \* signals delivered to the process, handler not yet run
  signalsDelivered,    \* signals delivered so far
  signalsHandled,      \* signal_handler invocations so far
  callbackErrors,      \* exceptions raised inside event-loop callbacks
  captured,            \* history: frames returned by stream.read
  received,            \* history: messages returned by websocket.recv
  audioFlushCalls,     \* history: executions of _save_recording
  transcriptFlushCalls, \* history: executions of _save_transcript
  signalDuringRead     \* history: a signal arrived during a blocking device read

vars ==
  << LANGUAGE, deviceAvailable, runPc, exitCode, running, server_process,
     session_dir, transport, config, sent, stream, streamActive, streamCloses,
     paTerminated, sendPc, recvPc, sendCancel, recvCancel, data, audio_buffer,
     transcript_buffer, wavFile, txtFile, stop_future, pendingSignals,
     signalsDelivered, signalsHandled, callbackErrors, captured, received,
     audioFlushCalls, transcriptFlushCalls, signalDuringRead >>

envVars == << LANGUAGE, deviceAvailable >>
runVars == << runPc, exitCode, server_process, session_dir, config >>
streamVars == << stream, streamActive, streamCloses >>
audioVars == << audio_buffer, wavFile, audioFlushCalls >>
transcriptVars == << transcript_buffer, txtFile, transcriptFlushCalls >>
signalVars == << stop_future, pendingSignals, signalsDelivered, signalsHandled,
                 callbackErrors >>
taskVars == << sendPc, recvPc, sendCancel, recvCancel, data >>

NoFile == [status |-> "absent", content |-> <<>>, writes |-> 0]
NoConfig == [ok |-> FALSE, value |-> <<>>]

\* WebSocketSTTClient.__init__, before run() is entered
Init ==
  /\ LANGUAGE \in Languages
  /\ deviceAvailable \in BOOLEAN
  /\ runPc = "validate"
  /\ exitCode = -1
  /\ running = FALSE
  /\ server_process = "none"
  /\ session_dir = FALSE
  /\ transport = "none"
  /\ config = NoConfig
  /\ sent = <<>>
  /\ stream = "none"
  /\ streamActive = FALSE
  /\ streamCloses = 0
  /\ paTerminated = FALSE
  /\ sendPc = "none"
  /\ recvPc = "none"
  /\ sendCancel = FALSE
  /\ recvCancel = FALSE
  /\ data = 0
  /\ audio_buffer = <<>>
  /\ transcript_buffer = <<>>
  /\ wavFile = NoFile
  /\ txtFile = NoFile
  /\ stop_future = FALSE
  /\ pendingSignals = 0
  /\ signalsDelivered = 0
  /\ signalsHandled = 0
  /\ callbackErrors = 0
  /\ captured = <<>>
  /\ received = <<>>
  /\ audioFlushCalls = 0
  /\ transcriptFlushCalls = 0
  /\ signalDuringRead = FALSE

\* the event loop can run a task step or a callback: it is not inside the
\* blocking stream.read of the send path
LoopFree == sendPc # "read"

(* ------------------------- flush and stream cleanup -------------------- *)
\* the outcome of writing a file: ok, or the write raised
written(file, content, ok) ==
  IF ok THEN [status |-> "written", content |-> content, writes |-> file.writes + 1]
        ELSE [status |-> "failed", content |-> <<>>, writes |-> file.writes]

stop_audio_stream_unguarded ==
  stream' = "none" /\ streamActive' = FALSE /\ streamCloses' = streamCloses + 1

\* _stop_audio_stream
stop_audio_stream ==
  IF stream = "open"
    THEN stream' = "none" /\ streamActive' = FALSE /\ streamCloses' = streamCloses + 1
    ELSE UNCHANGED streamVars

save_recording_keep_on_failure(ok) ==
  /\ audioFlushCalls' = audioFlushCalls + 1
  /\ IF audio_buffer = <<>> \/ ~session_dir
       THEN UNCHANGED << audio_buffer, wavFile >>
       ELSE /\ wavFile' = written(wavFile, audio_buffer, ok)
            /\ audio_buffer' = IF ok THEN <<>> ELSE audio_buffer

\* _save_recording
save_recording(ok) ==
  /\ audioFlushCalls' = audioFlushCalls + 1
  /\ IF audio_buffer = <<>> \/ ~session_dir
       THEN UNCHANGED << audio_buffer, wavFile >>
       ELSE /\ wavFile' = written(wavFile, audio_buffer, ok)
            /\ audio_buffer' = <<>>

\* _save_transcript
save_transcript(ok) ==
  /\ transcriptFlushCalls' = transcriptFlushCalls + 1
  /\ IF transcript_buffer = <<>> \/ ~session_dir
       THEN UNCHANGED << transcript_buffer, txtFile >>
       ELSE /\ txtFile' = written(txtFile, join(transcript_buffer), ok)
            /\ transcript_buffer' = <<>>

\* the finally block of _stream_audio, then the task ends
stream_audio_finally(ok) ==
  /\ stop_audio_stream
  /\ save_recording(ok)
  /\ sendPc' = "done"

\* the finally block of run()
run_finally ==
  /\ stop_audio_stream
  /\ paTerminated' = TRUE
  /\ server_process' = IF server_process = "none" THEN "none" ELSE "terminated"
  /\ runPc' = "returned"

(* -------------------------------- run() -------------------------------- *)
\* validate_audio_dependencies: fails when the audio modules cannot be
\* imported or PyAudio cannot start; a missing default input device is only
\* logged as a warning
validate_audio_dependencies(depsOk, device) == depsOk

\* run_startup_validation: validate_configuration, then the audio dependencies
run_startup_validation(configOk, depsOk, device) ==
  configOk /\ validate_audio_dependencies(depsOk, device)

\* require_validation(): sys.exit(1) when startup validation fails
run_validate ==
  /\ runPc = "validate"
  /\ \E configOk \in BOOLEAN, depsOk \in BOOLEAN :
       IF run_startup_validation(configOk, depsOk, deviceAvailable)
         THEN runPc' = "start_server" /\ exitCode' = exitCode
         ELSE runPc' = "exited" /\ exitCode' = 1
  /\ UNCHANGED << envVars, running, server_process, session_dir, transport,
                  config, sent, streamVars, paTerminated, taskVars, audioVars,
                  transcriptVars, signalVars, captured, received,
                  signalDuringRead >>

\* self.server_process = start_server(...); await asyncio.sleep(3)
run_start_server ==
  /\ runPc = "start_server"
  /\ server_process' = "started"
  /\ runPc' = "sleep"
  /\ UNCHANGED << envVars, exitCode, running, session_dir, transport, config,
                  sent, streamVars, paTerminated, taskVars, audioVars,
                  transcriptVars, signalVars, captured, received,
                  signalDuringRead >>

\* after the sleep: self.running = True, the session directory is created,
\* then run() awaits websockets.connect
run_set_running ==
  /\ runPc = "sleep"
  /\ running' = TRUE
  /\ session_dir' = TRUE
  /\ runPc' = "connect"
  /\ UNCHANGED << envVars, exitCode, server_process, transport, config, sent,
                  streamVars, paTerminated, taskVars, audioVars, transcriptVars,
                  signalVars, captured, received,
                  signalDuringRead >>

\* websockets.connect and the construction of ClientConfig; a failure of
\* either is caught by "except Exception" and run() goes to its finally block
run_connect ==
  /\ runPc = "connect"
  /\ \E connected \in BOOLEAN :
       IF ~connected
         THEN /\ run_finally
              /\ UNCHANGED << transport, config >>
         ELSE /\ config' = ClientConfig(LANGUAGE)
              /\ IF config'.ok
                   THEN /\ transport' = "open"
                        /\ runPc' = "send_config"
                        /\ UNCHANGED << streamVars, paTerminated, server_process >>
                   ELSE /\ transport' = "closed"
                        /\ run_finally
  /\ UNCHANGED << envVars, exitCode, running, session_dir, sent, taskVars,
                  audioVars, transcriptVars, signalVars, captured, received,
                  signalDuringRead >>

run_send_config_launch_always ==
  /\ runPc = "send_config"
  /\ sendPc' = "init"
  /\ recvPc' = "init"
  /\ IF transport = "open"
       THEN /\ sent' = Append(sent, [kind |-> "config", frame |-> 0])
            /\ runPc' = "wait_stop"
            /\ UNCHANGED << transport, streamVars, paTerminated, server_process >>
       ELSE /\ transport' = "closed"
            /\ run_finally
            /\ UNCHANGED << sent >>
  /\ UNCHANGED << envVars, exitCode, running, session_dir, config, sendCancel,
                  recvCancel, data, audioVars, transcriptVars, signalVars,
                  captured, received, signalDuringRead >>

\* await websocket.send(config.model_dump_json()); on success the two tasks
\* are created, the signal handlers installed and run() awaits stop_future
run_send_config ==
  /\ runPc = "send_config"
  /\ IF transport = "open"
       THEN /\ sent' = Append(sent, [kind |-> "config", frame |-> 0])
            /\ sendPc' = "init"
            /\ recvPc' = "init"
            /\ runPc' = "wait_stop"
            /\ UNCHANGED << transport, streamVars, paTerminated, server_process >>
       ELSE /\ transport' = "closed"
            /\ run_finally
            /\ UNCHANGED << sent, sendPc, recvPc >>
  /\ UNCHANGED << envVars, exitCode, running, session_dir, config, sendCancel,
                  recvCancel, data, audioVars, transcriptVars, signalVars,
                  captured, received,
                  signalDuringRead >>

run_stop_no_cancel ==
  /\ runPc = "wait_stop"
  /\ stop_future
  /\ LoopFree
  /\ \E ok \in BOOLEAN : save_transcript(ok)
  /\ runPc' = "closing"
  /\ UNCHANGED << envVars, exitCode, running, server_process, session_dir,
                  transport, config, sent, streamVars, paTerminated, taskVars,
                  audioVars, signalVars, captured, received, signalDuringRead >>

\* stop_future is done: run() resumes, cancels both tasks, saves the
\* transcript and leaves the "async with", which awaits the close handshake
run_stop ==
  /\ runPc = "wait_stop"
  /\ stop_future
  /\ LoopFree
  /\ sendCancel' = (sendPc # "done")
  /\ recvCancel' = (recvPc # "done")
  /\ \E ok \in BOOLEAN : save_transcript(ok)
  /\ runPc' = "closing"
  /\ UNCHANGED << envVars, exitCode, running, server_process, session_dir,
                  transport, config, sent, streamVars, paTerminated, sendPc,
                  recvPc, data, audioVars, signalVars, captured, received,
                  signalDuringRead >>

\* the websocket is closed, then the finally block of run()
run_close ==
  /\ runPc = "closing"
  /\ LoopFree
  /\ transport' = "closed"
  /\ run_finally
  /\ UNCHANGED << envVars, exitCode, running, session_dir, config, sent,
                  taskVars, audioVars, transcriptVars, signalVars, captured,
                  received,
                  signalDuringRead >>

\* run() has returned; asyncio.run lets the cancelled tasks finish, closes
\* the loop and the process ends
process_exit ==
  /\ runPc = "returned"
  /\ sendPc \in {"none", "done"}
  /\ recvPc \in {"none", "done"}
  /\ runPc' = "exited"
  /\ exitCode' = 0
  /\ UNCHANGED << envVars, running, server_process, session_dir, transport,
                  config, sent, streamVars, paTerminated, taskVars, audioVars,
                  transcriptVars, signalVars, captured, received,
                  signalDuringRead >>

(* ------------------------------- signals ------------------------------- *)
\* the handlers are installed from task creation until the loop is closed
HandlersInstalled ==
  sendPc # "none" /\ runPc \in {"wait_stop", "closing", "returned"}

\* SIGINT or SIGTERM reaches the process (also during a blocking device read)
deliver_signal ==
  /\ HandlersInstalled
  /\ signalsDelivered < MaxSignals
  /\ signalsDelivered' = signalsDelivered + 1
  /\ pendingSignals' = pendingSignals + 1
  /\ signalDuringRead' = (signalDuringRead \/ sendPc = "read")
  /\ UNCHANGED << envVars, runVars, running, transport, sent, streamVars,
                  paTerminated, taskVars, audioVars, transcriptVars,
                  stop_future, signalsHandled, callbackErrors, captured,
                  received >>

signal_handler_toggle ==
  /\ HandlersInstalled
  /\ pendingSignals > 0
  /\ LoopFree
  /\ sendPc # "init" /\ recvPc # "init"
  /\ pendingSignals' = pendingSignals - 1
  /\ signalsHandled' = signalsHandled + 1
  /\ running' = ~running
  /\ IF stop_future
       THEN callbackErrors' = callbackErrors + 1 /\ UNCHANGED stop_future
       ELSE stop_future' = TRUE /\ UNCHANGED callbackErrors
  /\ UNCHANGED << envVars, runVars, transport, sent, streamVars, paTerminated,
                  taskVars, audioVars, transcriptVars, signalsDelivered,
                  captured, received, signalDuringRead >>

\* signal_handler, run by the event loop: both tasks have taken their first
\* step by then, since they were scheduled before the handlers were installed
signal_handler ==
  /\ HandlersInstalled
  /\ pendingSignals > 0
  /\ LoopFree
  /\ sendPc # "init" /\ recvPc # "init"
  /\ pendingSignals' = pendingSignals - 1
  /\ signalsHandled' = signalsHandled + 1
  /\ running' = FALSE
  /\ IF stop_future
       THEN \* set_result on a done future raises InvalidStateError
            callbackErrors' = callbackErrors + 1 /\ UNCHANGED stop_future
       ELSE stop_future' = TRUE /\ UNCHANGED callbackErrors
  /\ UNCHANGED << envVars, runVars, transport, sent, streamVars, paTerminated,
                  taskVars, audioVars, transcriptVars, signalsDelivered,
                  captured, received,
                  signalDuringRead >>

(* ---------------------------- _stream_audio ---------------------------- *)
\* first step of the task: pa.open and start_stream are outside the try
\* block, so a failure to open the device ends the task without its finally;
\* otherwise the loop condition is evaluated and the blocking read entered
stream_audio_start ==
  /\ sendPc = "init"
  /\ IF ~deviceAvailable
       THEN /\ sendPc' = "done"
            /\ UNCHANGED << streamVars, audioVars >>
       ELSE IF running
         THEN /\ stream' = "open"
              /\ streamActive' = TRUE
              /\ sendPc' = "read"
              /\ UNCHANGED << streamCloses, audioVars >>
         ELSE /\ stream' = "none"
              /\ streamActive' = FALSE
              /\ streamCloses' = streamCloses + 1
              /\ \E ok \in BOOLEAN : save_recording(ok)
              /\ sendPc' = "done"
  /\ UNCHANGED << envVars, runVars, running, transport, sent, paTerminated,
                  recvPc, sendCancel, recvCancel, data, transcriptVars,
                  signalVars, captured, received,
                  signalDuringRead >>

\* data = self.stream.read(...) returns the next frame; the task then
\* awaits websocket.send(data)
stream_audio_read ==
  /\ sendPc = "read"
  /\ streamActive
  /\ Len(captured) < MaxFrames
  /\ data' = Len(captured) + 1
  /\ captured' = Append(captured, Len(captured) + 1)
  /\ sendPc' = "send"
  /\ UNCHANGED << envVars, runVars, running, transport, sent, streamVars,
                  paTerminated, recvPc, sendCancel, recvCancel, audioVars,
                  transcriptVars, signalVars, received,
                  signalDuringRead >>

\* self.stream.read raises (the device stopped or has no more input):
\* except Exception, then finally
stream_audio_read_raises ==
  /\ sendPc = "read"
  /\ ~streamActive \/ Len(captured) >= MaxFrames
  /\ \E ok \in BOOLEAN : stream_audio_finally(ok)
  /\ UNCHANGED << envVars, runVars, running, transport, sent, paTerminated,
                  recvPc, sendCancel, recvCancel, data, transcriptVars,
                  signalVars, captured, received,
                  signalDuringRead >>

\* await websocket.send(data) completes; self.audio_buffer.append(data);
\* the task then awaits asyncio.sleep(0)
stream_audio_sent ==
  /\ sendPc = "send"
  /\ ~sendCancel
  /\ LoopFree
  /\ transport = "open"
  /\ sent' = Append(sent, [kind |-> "audio", frame |-> data])
  /\ audio_buffer' = Append(audio_buffer, data)
  /\ sendPc' = "sleep"
  /\ UNCHANGED << envVars, runVars, running, transport, streamVars,
                  paTerminated, recvPc, sendCancel, recvCancel, data, wavFile,
                  audioFlushCalls, transcriptVars, signalVars, captured,
                  received,
                  signalDuringRead >>

stream_audio_send_raises_records ==
  /\ sendPc = "send"
  /\ ~sendCancel
  /\ LoopFree
  /\ transport # "open"
  /\ audio_buffer' = Append(audio_buffer, data)
  /\ sendPc' = "sleep"
  /\ UNCHANGED << envVars, runVars, running, transport, sent, streamVars,
                  paTerminated, recvPc, sendCancel, recvCancel, data, wavFile,
                  audioFlushCalls, transcriptVars, signalVars, captured,
                  received, signalDuringRead >>

\* await websocket.send(data) raises ConnectionClosed: except Exception
\* (which only logs), then finally
stream_audio_send_raises ==
  /\ sendPc = "send"
  /\ ~sendCancel
  /\ LoopFree
  /\ transport # "open"
  /\ \E ok \in BOOLEAN : stream_audio_finally(ok)
  /\ UNCHANGED << envVars, runVars, running, transport, sent, paTerminated,
                  recvPc, sendCancel, recvCancel, data, transcriptVars,
                  signalVars, captured, received,
                  signalDuringRead >>

\* asyncio.sleep(0) returns: "while self.running and self.stream.is_active()"
stream_audio_loop ==
  /\ sendPc = "sleep"
  /\ ~sendCancel
  /\ LoopFree
  /\ IF running /\ streamActive
       THEN sendPc' = "read" /\ UNCHANGED << streamVars, audioVars >>
       ELSE \E ok \in BOOLEAN : stream_audio_finally(ok)
  /\ UNCHANGED << envVars, runVars, running, transport, sent, paTerminated,
                  recvPc, sendCancel, recvCancel, data, transcriptVars,
                  signalVars, captured, received,
                  signalDuringRead >>

\* CancelledError is thrown into the task at its await: it is not an
\* Exception, so only the finally block runs
stream_audio_cancelled ==
  /\ sendPc \in {"send", "sleep"}
  /\ sendCancel
  /\ LoopFree
  /\ \E ok \in BOOLEAN : stream_audio_finally(ok)
  /\ sendCancel' = FALSE
  /\ UNCHANGED << envVars, runVars, running, transport, sent, paTerminated,
                  recvPc, recvCancel, data, transcriptVars, signalVars,
                  captured, received,
                  signalDuringRead >>

\* the capture device stops delivering: stream.is_active() turns false
device_stops ==
  /\ stream = "open"
  /\ streamActive
  /\ streamActive' = FALSE
  /\ UNCHANGED << envVars, runVars, running, transport, sent, stream,
                  streamCloses, paTerminated, taskVars, audioVars,
                  transcriptVars, signalVars, captured, received,
                  signalDuringRead >>

(* ----------------------- _receive_transcription ------------------------ *)
\* first step of the task, run right after the first step of the send task
receive_start ==
  /\ recvPc = "init"
  /\ sendPc # "init"
  /\ LoopFree
  /\ recvPc' = IF running THEN "recv" ELSE "done"
  /\ UNCHANGED << envVars, runVars, running, transport, sent, streamVars,
                  paTerminated, sendPc, sendCancel, recvCancel, data,
                  audioVars, transcriptVars, signalVars, captured, received,
                  signalDuringRead >>

handle_message_unstripped(p) ==
  IF classify(p) = "Transcription" /\ strip(text_of(p)) # <<>>
    THEN Append(transcript_buffer, text_of(p))
    ELSE transcript_buffer

handle_message_keep_malformed(p) ==
  IF classify(p) # "Status" /\ strip(text_of(p)) # <<>>
    THEN Append(transcript_buffer, strip(text_of(p)))
    ELSE transcript_buffer

\* the transcript buffer after one message was validated and handled
handle_message(p) ==
  IF classify(p) = "Transcription" /\ strip(text_of(p)) # <<>>
    THEN Append(transcript_buffer, strip(text_of(p)))
    ELSE transcript_buffer

receive_from_status_stops(S, max) ==
  /\ recvPc = "recv"
  /\ ~recvCancel
  /\ LoopFree
  /\ transport = "open"
  /\ Len(received) < max
  /\ \E p \in S :
       /\ received' = Append(received, p)
       /\ transcript_buffer' = handle_message(p)
       /\ running' = IF classify(p) = "Status" /\ p.status \in {"error", "closed"}
                       THEN FALSE ELSE running
  /\ recvPc' = IF running' THEN "recv" ELSE "done"
  /\ UNCHANGED << envVars, runVars, transport, sent, streamVars,
                  paTerminated, sendPc, sendCancel, recvCancel, data,
                  audioVars, txtFile, transcriptFlushCalls, signalVars,
                  captured, signalDuringRead >>

\* message = await websocket.recv() returns a message p of S; the message is
\* handled and "while self.running" is evaluated again
receive_from(S, max) ==
  /\ recvPc = "recv"
  /\ ~recvCancel
  /\ LoopFree
  /\ transport = "open"
  /\ Len(received) < max
  /\ \E p \in S :
       /\ received' = Append(received, p)
       /\ transcript_buffer' = handle_message(p)
  /\ recvPc' = IF running THEN "recv" ELSE "done"
  /\ UNCHANGED << envVars, runVars, running, transport, sent, streamVars,
                  paTerminated, sendPc, sendCancel, recvCancel, data,
                  audioVars, txtFile, transcriptFlushCalls, signalVars,
                  captured, signalDuringRead >>

\* the receive step of the session model
receive_message == receive_from(Payloads, MaxMessages)

\* the receive step over the wider set of messages
receive_any == receive_from(PayloadUniverse, MaxClassified)

\* websocket.recv() raises ConnectionClosed: self.running = False
receive_closed ==
  /\ recvPc = "recv"
  /\ ~recvCancel
  /\ LoopFree
  /\ transport \in {"peer_closed", "closed"}
  /\ running' = FALSE
  /\ recvPc' = "done"
  /\ UNCHANGED << envVars, runVars, transport, sent, streamVars, paTerminated,
                  sendPc, sendCancel, recvCancel, data, audioVars,
                  transcriptVars, signalVars, captured, received,
                  signalDuringRead >>

\* websocket.recv() raises another exception: it is logged, nothing is set
receive_error ==
  /\ recvPc = "recv"
  /\ ~recvCancel
  /\ LoopFree
  /\ recvPc' = "done"
  /\ UNCHANGED << envVars, runVars, running, transport, sent, streamVars,
                  paTerminated, sendPc, sendCancel, recvCancel, data,
                  audioVars, transcriptVars, signalVars, captured, received,
                  signalDuringRead >>

\* CancelledError is thrown into the task at "await websocket.recv()"
receive_cancelled ==
  /\ recvPc = "recv"
  /\ recvCancel
  /\ LoopFree
  /\ recvPc' = "done"
  /\ recvCancel' = FALSE
  /\ UNCHANGED << envVars, runVars, running, transport, sent, streamVars,
                  paTerminated, sendPc, sendCancel, data, audioVars,
                  transcriptVars, signalVars, captured, received,
                  signalDuringRead >>

\* the server closes the connection
peer_closes ==
  /\ transport = "open"
  /\ transport' = "peer_closed"
  /\ UNCHANGED << envVars, runVars, running, sent, streamVars, paTerminated,
                  taskVars, audioVars, transcriptVars, signalVars, captured,
                  received,
                  signalDuringRead >>

(* --------------------------- specifications ---------------------------- *)
Next ==
  \/ run_validate
  \/ run_start_server
  \/ run_set_running
  \/ run_connect
  \/ run_send_config
  \/ run_stop
  \/ run_close
  \/ process_exit
  \/ deliver_signal
  \/ signal_handler
  \/ stream_audio_start
  \/ stream_audio_read
  \/ stream_audio_read_raises
  \/ stream_audio_sent
  \/ stream_audio_send_raises
  \/ stream_audio_loop
  \/ stream_audio_cancelled
  \/ device_stops
  \/ receive_start
  \/ receive_message
  \/ receive_closed
  \/ receive_error
  \/ receive_cancelled
  \/ peer_closes

Spec == Init /\ [][Next]_vars

\* the steps of the program itself: the event loop runs every ready task
\* and callback, a device read and a close handshake are bounded
ProgramStep ==
  \/ run_start_server
  \/ run_set_running
  \/ run_send_config
  \/ run_stop
  \/ run_close
  \/ process_exit
  \/ signal_handler
  \/ stream_audio_start
  \/ stream_audio_read
  \/ stream_audio_read_raises
  \/ stream_audio_sent
  \/ stream_audio_send_raises
  \/ stream_audio_loop
  \/ stream_audio_cancelled
  \/ receive_start
  \/ receive_closed
  \/ receive_cancelled

FairSpec == Spec /\ WF_vars(ProgramStep)

(* ---------------- the session up to peer closure, any message --------- *)
\* the start of a session and its two paths without a stop signal, the
\* receive path being fed from the wider set of messages
ClassifyNext ==
  \/ run_validate
  \/ run_start_server
  \/ run_set_running
  \/ run_connect
  \/ run_send_config
  \/ stream_audio_start
  \/ stream_audio_read
  \/ stream_audio_read_raises
  \/ stream_audio_sent
  \/ stream_audio_send_raises
  \/ stream_audio_loop
  \/ receive_start
  \/ receive_any
  \/ receive_closed
  \/ peer_closes

ClassifySpec == Init /\ [][ClassifyNext]_vars

(* ------------------- the two buffers and their flushes ----------------- *)
\* the buffer operations on their own, called in any order: the session
\* directory is created, frames and lines are appended, either flush is called
buffer_session_dir ==
  /\ ~session_dir
  /\ session_dir' = TRUE
  /\ UNCHANGED << envVars, runPc, exitCode, server_process, config, running,
                  transport, sent, streamVars, paTerminated, taskVars,
                  audioVars, transcriptVars, signalVars, captured, received,
                  signalDuringRead >>

\* self.audio_buffer.append(data)
buffer_append_frame ==
  /\ session_dir
  /\ Len(audio_buffer) < MaxFrames
  /\ audio_buffer' = Append(audio_buffer, Len(audio_buffer) + 1)
  /\ UNCHANGED << envVars, runVars, running, transport, sent, streamVars,
                  paTerminated, taskVars, wavFile, audioFlushCalls,
                  transcriptVars, signalVars, captured, received,
                  signalDuringRead >>

\* self.transcript_buffer.append(text)
buffer_append_line ==
  /\ session_dir
  /\ Len(transcript_buffer) < MaxMessages
  /\ \E t \in {hello, strip(padded)} :
       transcript_buffer' = Append(transcript_buffer, t)
  /\ UNCHANGED << envVars, runVars, running, transport, sent, streamVars,
                  paTerminated, taskVars, audioVars, txtFile,
                  transcriptFlushCalls, signalVars, captured, received,
                  signalDuringRead >>

\* a call of self._save_recording()
buffer_save_recording ==
  /\ audioFlushCalls < MaxFlushes
  /\ \E ok \in BOOLEAN : save_recording(ok)
  /\ UNCHANGED << envVars, runVars, running, transport, sent, streamVars,
                  paTerminated, taskVars, transcriptVars, signalVars, captured,
                  received, signalDuringRead >>

\* a call of self._save_transcript()
buffer_save_transcript ==
  /\ transcriptFlushCalls < MaxFlushes
  /\ \E ok \in BOOLEAN : save_transcript(ok)
  /\ UNCHANGED << envVars, runVars, running, transport, sent, streamVars,
                  paTerminated, taskVars, audioVars, signalVars, captured,
                  received, signalDuringRead >>

BufferNext ==
  \/ buffer_session_dir
  \/ buffer_append_frame
  \/ buffer_append_line
  \/ buffer_save_recording
  \/ buffer_save_transcript

BufferSpec == Init /\ [][BufferNext]_vars

(* ------------------------- derived observations ------------------------ *)
\* the session became active: the config was sent and both paths launched
SessionActive == sendPc # "none"

\* the frames whose send completed, in the order they went on the transport
SentFrames ==
  [i \in 1..(IF sent = <<>> THEN 0 ELSE Len(sent) - 1) |-> sent[i + 1].frame]

RECURSIVE AcceptedLines(_)
\* the trimmed non-empty texts of the Transcription messages among msgs
AcceptedLines(msgs) ==
  IF msgs = <<>> THEN <<>>
  ELSE LET p == Head(msgs)
           t == strip(text_of(p))
       IN IF ValidTranscription(p) /\ t # <<>>
            THEN << t >> \o AcceptedLines(Tail(msgs))
            ELSE AcceptedLines(Tail(msgs))

\* self.running has been active and is not any more
LeftActive == ~running /\ runPc \notin {"validate", "start_server", "sleep"}

\* run() has connected, so ClientConfig(...) was evaluated
ConfigBuilt == transport # "none"

(* -------------------------------- claims ------------------------------- *)

\* C1: in every session that became active, when the process has exited the
\* audio flush and the transcript flush have each been executed exactly once.
C1_FlushedExactlyOnce ==
  (runPc = "exited" /\ SessionActive)
    => (audioFlushCalls = 1 /\ transcriptFlushCalls = 1)

\* C2: once the peer has closed the transport of an active session (the
\* capture stream being open), the
\* session reaches Closed (process exited, both paths ended, both buffers
\* written out) even if no stop signal is ever delivered.
C2_PeerClosureEndsSession ==
  (runPc = "wait_stop" /\ transport = "peer_closed" /\ stream = "open")
    ~> (\/ signalsDelivered > 0
        \/ /\ runPc = "exited"
           /\ sendPc = "done" /\ recvPc = "done"
           /\ audio_buffer = <<>> /\ transcript_buffer = <<>>)

\* the state C3 promises after a stop signal
C3_Stopped ==
  /\ runPc = "exited"
  /\ ~running
  /\ sendPc = "done" /\ recvPc = "done"
  /\ audio_buffer = <<>> /\ transcript_buffer = <<>>
  /\ transcriptFlushCalls >= 1
  /\ (SentFrames # <<>> => wavFile.status # "absent")
  /\ (AcceptedLines(received) # <<>> => txtFile.status # "absent")

C4_ArtifactHoldsCapturedFrames ==
  wavFile.status = "written" => wavFile.content = captured

\* C5: the transcript artifact is the newline-joined sequence of the trimmed
\* texts of the received Transcription messages whose trimmed text is not
\* empty, in arrival order; until the flush the buffer holds those lines.
C5_TranscriptArtifact ==
  /\ txtFile.status = "written"
       => txtFile.content = join(AcceptedLines(received))
  /\ transcriptFlushCalls = 0
       => transcript_buffer = AcceptedLines(received)

C5_Witness ==
  /\ txtFile.status = "written"
  /\ Len(received) = 2
  /\ text_of(received[1]) = padded
  /\ text_of(received[2]) = blank

\* C6: the step that receives a message failing both schemas changes neither
\* running nor a buffer nor an artifact, and with running still active the
\* receive path is back at its receive.
C6_MalformedDropped ==
  [][ (received' # received /\ classify(received'[Len(received')]) = "Malformed")
        => /\ running' = running
           /\ audio_buffer' = audio_buffer
           /\ transcript_buffer' = transcript_buffer
           /\ wavFile' = wavFile
           /\ txtFile' = txtFile
           /\ (running => recvPc' = "recv") ]_vars

C6_Witness ==
  /\ Len(received) = 2
  /\ classify(received[1]) = "Malformed"
  /\ "text" \in received[1].keys
  /\ classify(received[2]) = "Transcription"
  /\ running
  /\ recvPc = "recv"

\* C7: once running has left active, no step sets it active again.
C7_RunningMonotonic == [][ LeftActive => ~running' ]_vars

C7_Witness ==
  /\ LeftActive
  /\ signalsHandled = 2
  /\ runPc = "exited"
  /\ SessionActive

\* C8: once the session has left active, a further signal_handler run
\* changes neither running nor a buffer and raises no error.
C8_LaterTriggerNoop ==
  [][ (LeftActive /\ signalsHandled' = signalsHandled + 1)
        => /\ running' = running
           /\ audio_buffer' = audio_buffer
           /\ transcript_buffer' = transcript_buffer
           /\ callbackErrors' = callbackErrors ]_vars

\* C9: the config message is the first and only config on the transport,
\* the paths exist only once it was sent, and without it no frame is read
\* or sent and no message is received.
C9_ConfigFirst ==
  /\ \A i \in 1..Len(sent) : (sent[i].kind = "config") <=> (i = 1)
  /\ (sendPc # "none" \/ recvPc # "none") => sent # <<>>
  /\ sent = <<>>
       => /\ captured = <<>> /\ received = <<>>
          /\ sendPc = "none" /\ recvPc = "none"
          /\ stream = "none"

C9_Witness ==
  /\ Len(sent) >= 3
  /\ received # <<>>
  /\ runPc = "exited"

\* C10 as stated: the language is trimmed and lowercased, so "EN " is
\* accepted and becomes "en".
C10_TrimmedAndLowercased ==
  (ConfigBuilt /\ isalpha(strip(LANGUAGE)))
    => (config.ok /\ config.value = lower(strip(LANGUAGE)))

\* C10 amended: the language is lowercased but not trimmed: "EN" becomes
\* "en", and "EN " is rejected like any other non-alphabetic code.
C10_LowercasedNotTrimmed ==
  ConfigBuilt
    => /\ config.ok <=> isalpha(LANGUAGE)
       /\ LANGUAGE = <<"E", "N">> => config.value = <<"e", "n">>
       /\ LANGUAGE = <<"E", "N", " ">> => ~config.ok
       /\ config.ok => /\ Len(config.value) = Len(LANGUAGE)
                       /\ \A i \in 1..Len(config.value) :
                            config.value[i] \in {"e", "n", "h", "i"}

C10_Witness ==
  /\ ConfigBuilt
  /\ LANGUAGE = <<"E", "N">>
  /\ config.value = <<"e", "n">>
  /\ sent # <<>>

\* C11: a language that is not purely alphabetic is rejected before the
\* server subprocess is spawned, before running is set active, before the
\* session directory is created and before the transport is opened.
C11_RejectedBeforeSessionStarts ==
  ~isalpha(LANGUAGE)
    => /\ server_process = "none"
       /\ ~running
       /\ ~session_dir
       /\ transport = "none"

\* C12: without a capture input device the program fails at startup: the
\* transport is never opened, running never becomes active and neither path
\* is launched.
C12_NoDeviceFailsAtStartup ==
  ~deviceAvailable
    => /\ transport = "none"
       /\ ~running
       /\ sendPc = "none" /\ recvPc = "none"

\* C13: a process that ended on a fatal startup error (validation failed or
\* the transport could not be connected) has a non-zero exit status, and one
\* that ended after a stop signal was handled has exit status zero.
C13_ExitStatus ==
  runPc = "exited"
    => /\ transport = "none" => exitCode # 0
       /\ signalsHandled >= 1 => exitCode = 0

\* C14: a flush always leaves its buffer empty, whether the write succeeded
\* or failed, and a flush that finds its buffer empty (as a second flush in
\* a row does) leaves the artifact as it was.
C14_FlushSingleShot ==
  [][ /\ audioFlushCalls' = audioFlushCalls + 1
         => /\ audio_buffer' = <<>>
            /\ audio_buffer = <<>> => wavFile' = wavFile
      /\ transcriptFlushCalls' = transcriptFlushCalls + 1
         => /\ transcript_buffer' = <<>>
            /\ transcript_buffer = <<>> => txtFile' = txtFile ]_vars

C14_Witness ==
  /\ audioFlushCalls = 2
  /\ wavFile.status = "failed"
  /\ audio_buffer = <<>>
  /\ transcriptFlushCalls = 2
  /\ txtFile.status = "written"
  /\ txtFile.writes = 1
  /\ transcript_buffer = <<>>

\* C15: every execution of the audio flush and of the transcript flush
\* happens in a state where running is not active.
C15_NoFlushWhileActive ==
  [][ (audioFlushCalls' # audioFlushCalls
         \/ transcriptFlushCalls' # transcriptFlushCalls)
        => ~running ]_vars

\* C16: the step in which a transport send fails in the send path while
\* running is active sets running to not active and ends the send loop.
C16_SendErrorStopsSession ==
  [][ (sendPc = "send" /\ ~sendCancel /\ transport # "open"
         /\ running /\ sendPc' # sendPc)
        => (~running' /\ sendPc' = "done") ]_vars

\* C17: the step in which the receive path ends on a receive error other
\* than transport closure, while running is active, sets running to false.
C17_ReceiveErrorStopsSession ==
  [][ (recvPc = "recv" /\ ~recvCancel /\ transport = "open"
         /\ running /\ received' = received /\ recvPc' = "done")
        => ~running' ]_vars

\* C18: the transcript flush, the closing of the transport, the release of
\* the capture device and the termination of the server subprocess happen
\* only when neither the send path nor the receive path can take a step.
C18_ClosedActionsAfterPaths ==
  [][ (\/ transcriptFlushCalls' # transcriptFlushCalls
       \/ (transport' = "closed" /\ transport # "closed")
       \/ (paTerminated' /\ ~paTerminated)
       \/ (server_process' = "terminated" /\ server_process # "terminated"))
        => (sendPc \in {"none", "done"} /\ recvPc \in {"none", "done"}) ]_vars

\* the classification when the Status schema is tried before Transcription
classify_status_first(p) ==
  IF ValidStatus(p) THEN "Status"
  ELSE IF ValidTranscription(p) THEN "Transcription"
  ELSE "Malformed"

\* C19: no received payload validates under both schemas, a payload with a
\* key unknown to a schema fails that schema, and trying Status first would
\* classify every received payload the same way.
C19_SchemasDisjoint ==
  \A i \in 1..Len(received) :
    LET p == received[i]
    IN /\ ~(ValidTranscription(p) /\ ValidStatus(p))
       /\ p.keys \ TranscriptionFields # {} => ~ValidTranscription(p)
       /\ p.keys \ StatusFields # {} => ~ValidStatus(p)
       /\ classify(p) = classify_status_first(p)

C19_Witness ==
  /\ Len(received) = 1
  /\ received[1].keys = {"status", "message"}
  /\ received[1].status = "ready"
  /\ classify(received[1]) = "Status"

\* C20: the step that receives a Status message of any kind changes neither
\* running nor a buffer, and with running active the receive path is back at
\* its receive.
C20_StatusChangesNothing ==
  [][ (received' # received /\ classify(received'[Len(received')]) = "Status")
        => /\ running' = running
           /\ audio_buffer' = audio_buffer
           /\ transcript_buffer' = transcript_buffer
           /\ (running => recvPc' = "recv") ]_vars

C20_Witness ==
  /\ Len(received) = 1
  /\ classify(received[1]) = "Status"
  /\ received[1].status = "closed"
  /\ audio_buffer # <<>>
  /\ running
  /\ recvPc = "recv"

\* C21: every line appended to the transcript buffer comes from a
\* Transcription message whose partial/final flag says final: the step that
\* receives a partial Transcription appends nothing.
C21_FinalLinesOnly ==
  [][ Len(transcript_buffer') > Len(transcript_buffer)
        => /\ received' # received
           /\ classify(received'[Len(received')]) = "Transcription"
           /\ is_final(received'[Len(received')]) ]_vars

\* C22: at every point of the run the frames in the audio buffer, and the
\* frames of a written audio artifact, are a prefix of the frames whose
\* transport send completed: a frame whose send failed or was cancelled is
\* in neither.
C22_RecordedAfterSend ==
  /\ Len(audio_buffer) <= Len(SentFrames)
  /\ \A i \in 1..Len(audio_buffer) : audio_buffer[i] = SentFrames[i]
  /\ wavFile.status = "written"
       => /\ Len(wavFile.content) <= Len(SentFrames)
          /\ \A i \in 1..Len(wavFile.content) :
               wavFile.content[i] = SentFrames[i]

\* the second frame was read and its send was cancelled with the transport
\* still open; only the first frame was recorded
C22_Witness ==
  /\ sendPc = "done"
  /\ transport = "open"
  /\ captured = << 1, 2 >>
  /\ data = 2
  /\ SentFrames = << 1 >>
  /\ wavFile.status = "written"
  /\ wavFile.content = << 1 >>

\* C23: after a stop signal the step of run() that flushes the transcript
\* requests the cancellation of every unfinished task and waits for none;
\* once the transcript flush has run no step appends a line, once the audio
\* flush has run no step appends a frame, and when the process exits both
\* buffers are empty and what was sent or accepted went to its file write.
C23_NoAppendAfterFlush ==
  [][ /\ transcriptFlushCalls' = transcriptFlushCalls + 1
         => /\ signalsHandled >= 1
            /\ sendCancel' = (sendPc # "done")
            /\ recvCancel' = (recvPc # "done")
            /\ sendPc' = sendPc /\ recvPc' = recvPc
      /\ transcriptFlushCalls >= 1 => transcript_buffer' = <<>>
      /\ audioFlushCalls >= 1 => audio_buffer' = <<>>
      /\ (runPc' = "exited" /\ signalsHandled >= 1)
         => /\ audio_buffer' = <<>> /\ transcript_buffer' = <<>>
            /\ SentFrames # <<>> => wavFile'.status # "absent"
            /\ AcceptedLines(received) # <<>> => txtFile'.status # "absent"
            /\ txtFile'.status = "written"
                 => txtFile'.content = join(AcceptedLines(received)) ]_vars

\* the transcript was flushed while both tasks were still suspended at their
\* awaits with a cancellation pending
C23_Witness ==
  /\ runPc = "closing"
  /\ signalsHandled >= 1
  /\ sendPc = "send" /\ sendCancel
  /\ recvPc = "recv" /\ recvCancel
  /\ transport = "open"
  /\ txtFile.status = "written"
  /\ transcript_buffer = <<>>
  /\ audio_buffer # <<>>

\* C24: whenever run() has returned after the server subprocess was started
\* (after a stop signal, a connect failure, a config that could not be built
\* or sent), the subprocess has been terminated, PyAudio terminated and the
\* capture stream released; the stream is closed at most once in a run,
\* although both the send path and run() invoke the stream cleanup.
C24_CleanupOnReturn ==
  /\ streamCloses <= 1
  /\ (stream = "open") => (streamCloses = 0)
  /\ (runPc \in {"returned", "exited"} /\ server_process # "none")
       => /\ server_process = "terminated"
          /\ paTerminated
          /\ stream = "none"

\* a stopped session in which the stream was opened and both the finally
\* block of the send path and the finally block of run() have run
C24_Witness ==
  /\ runPc = "exited"
  /\ signalsHandled >= 1
  /\ sendPc = "done"
  /\ captured # <<>>
  /\ audioFlushCalls = 1
  /\ streamCloses = 1
  /\ server_process = "terminated"
  /\ paTerminated

====
